---- MODULE Spec2Model ----
(***************************************************************************)
(* A model of dumbo_rocks_db: the process-wide DbContext (db_context.rs),  *)
(* the generic ColumnFamily<T> accessor (column_family.rs) and the         *)
(* inverted-timestamp key index (utils.rs).                                *)
(*                                                                         *)
(* Strings and byte vectors are sequences of byte codes, so that the       *)
(* byte-wise lexicographic order RocksDB iterates in, and the order Rust   *)
(* compares Strings in, is computed and not assumed.  64-bit quantities    *)
(* are decimal digit sequences (i64::MAX does not fit the checker's        *)
(* integers); subtraction is done digit by digit.                          *)
(***************************************************************************)
EXTENDS Integers, Sequences, FiniteSets, TLC

(* ------------------------------ bounds -------------------------------- *)

\* Event instants are 100, 200, ..., 100 * NumInstants (unix seconds).
NumInstants == 3
\* keep_size is called with size in 0..MaxSize.
MaxSize == 2

(* ------------------------------ strings ------------------------------- *)

\* The ASCII codes of the characters the model writes.
Ord ==
  [c \in {"0", "1", "2", "3", "4", "5", "6", "7", "8", "9", "_",
          "a", "b", "c", "d", "e", "f", "g", "i", "l", "m", "n", "o", "s", "t",
          "A", "B", "X"} |->
     CASE c = "0" -> 48 [] c = "1" -> 49 [] c = "2" -> 50 [] c = "3" -> 51
       [] c = "4" -> 52 [] c = "5" -> 53 [] c = "6" -> 54 [] c = "7" -> 55
       [] c = "8" -> 56 [] c = "9" -> 57 [] c = "_" -> 95
       [] c = "A" -> 65 [] c = "B" -> 66 [] c = "X" -> 88
       [] c = "a" -> 97 [] c = "b" -> 98 [] c = "c" -> 99 [] c = "d" -> 100
       [] c = "e" -> 101 [] c = "f" -> 102 [] c = "g" -> 103 [] c = "i" -> 105
       [] c = "l" -> 108 [] c = "m" -> 109 [] c = "n" -> 110 [] c = "o" -> 111
       [] c = "s" -> 115 [] c = "t" -> 116]

\* The bytes of a string given as its characters.
Bytes(chars) == [i \in 1..Len(chars) |-> Ord[chars[i]]]

\* a < b in byte-wise lexicographic order, given that a and b agree before
\* position i.
RECURSIVE StrLessFrom(_, _, _)
StrLessFrom(a, b, i) ==
  IF i > Len(b) THEN FALSE
  ELSE IF i > Len(a) THEN TRUE
  ELSE IF a[i] = b[i] THEN StrLessFrom(a, b, i + 1)
  ELSE a[i] < b[i]

\* a < b in byte-wise lexicographic order (Rust's Ord for String and [u8],
\* and RocksDB's default comparator).
StrLess(a, b) == StrLessFrom(a, b, 1)

StrLeq(a, b) == a = b \/ StrLess(a, b)

(* ----------------------- 64-bit decimal arithmetic -------------------- *)

\* The decimal digits of a natural number, most significant first
\* (what to_string prints).
RECURSIVE ToDigits(_)
ToDigits(n) == IF n < 10 THEN <<n>> ELSE ToDigits(n \div 10) \o <<n % 10>>

\* i64::MAX = 9223372036854775807, as decimal digits.
I64_MAX == <<9, 2, 2, 3, 3, 7, 2, 0, 3, 6, 8, 5, 4, 7, 7, 5, 8, 0, 7>>

\* digits left-padded with zeros to width w (unchanged when already wider).
RECURSIVE ZeroPad(_, _)
ZeroPad(ds, w) == IF Len(ds) >= w THEN ds ELSE ZeroPad(<<0>> \o ds, w)

\* digits without leading zeros (at least one digit stays).
RECURSIVE Canonical(_)
Canonical(ds) ==
  IF Len(ds) > 1 /\ ds[1] = 0 THEN Canonical(Tail(ds)) ELSE ds

\* Digits 1..i of a - b, for equally long a and b with a >= b, given the
\* borrow coming into digit i.
RECURSIVE SubDigits(_, _, _, _)
SubDigits(a, b, i, borrow) ==
  IF i = 0 THEN <<>>
  ELSE LET d == a[i] - b[i] - borrow
       IN SubDigits(a, b, i - 1, IF d < 0 THEN 1 ELSE 0)
            \o <<IF d < 0 THEN d + 10 ELSE d>>

\* i64::MAX - t for an instant 0 <= t <= i64::MAX given by its decimal
\* digits, as canonical decimal digits.
InvertedDigits(td) ==
  Canonical(SubDigits(I64_MAX, ZeroPad(td, Len(I64_MAX)), Len(I64_MAX), 0))

\* i64::MAX - t for 0 <= t <= i64::MAX, as canonical decimal digits.
InvertedTimestamp(t) == InvertedDigits(ToDigits(t))

\* The ASCII rendering of a digit sequence.
DigitString(ds) == [i \in 1..Len(ds) |-> 48 + ds[i]]

\* format!("{}", n): the digits as they are.
FormatUnpadded(ds) == DigitString(ds)

\* format!("{:020}", n): zero-padded to 20 characters.
Format020(ds) == DigitString(ZeroPad(ds, 20))

\* n.to_string(): no padding.
to_string(ds) == DigitString(Canonical(ds))

\* utils.rs: generate_timestamp_index for an instant given by the decimal
\* digits of timestamp.timestamp().
TimestampIndexOf(config_id, td) ==
  Format020(InvertedDigits(td)) \o Bytes(<<"_">>) \o config_id

\* utils.rs: generate_timestamp_index(config_id, timestamp).
generate_timestamp_index(config_id, timestamp) ==
  TimestampIndexOf(config_id, ToDigits(timestamp))

(* ------------------------------ results ------------------------------- *)

\* anyhow::Result values: Ok(v), Err(context message); a panic unwinds the
\* call instead of returning.
Ok(v) == [tag |-> "Ok", val |-> v]
Err(msg) == [tag |-> "Err", val |-> msg]
Panic(msg) == [tag |-> "Panic", val |-> msg]
IsOk(r) == r.tag = "Ok"
IsErr(r) == r.tag = "Err"
IsPanic(r) == r.tag = "Panic"

\* Option values and the unit value.
Some(x) == <<x>>
None == <<>>
Unit == "()"

ErrHandle == "Failed to get column family handle"
ErrRead == "Failed to read database entry"
ErrDecode == "Failed to deserialize value"
ErrDelete == "Failed to delete item"
ErrWrite == "Failed to write item to database"
ErrBatch == "Failed to execute batch delete operation"
ErrOpen == "Failed to open RocksDB with column families"
ErrInitialized == "DbContext already initialized"
NotInitialized == "DbContext not initialized"

(* ---------------------------- record types ---------------------------- *)

\* The Keyable types of the model: TestUser (column_family_test.rs) and a
\* time-indexed Event whose key() is generate_timestamp_index.
RecordTypes == {"TestUser", "Event"}

UserIds == {Bytes(<<"0", "0", "1">>), Bytes(<<"0", "0", "2">>)}
UserNames == {Bytes(<<"A", "l", "i", "c", "e">>),
              Bytes(<<"A", "l", "i", "c", "i", "a">>)}
ConfigIds == {Bytes(<<"a">>)}
Instants == {100 * i : i \in 1..NumInstants}

\* A second type keyed by an id, as TestUser is, living in a column family
\* of its own: its keys are the strings that are TestUser keys too.
SharedKeyTypes == {"TestUser", "Member"}

\* The values of each record type.
Records(T) ==
  IF T \in SharedKeyTypes THEN [id : UserIds, name : UserNames]
  ELSE [config_id : ConfigIds, ts : Instants]

\* Keyable::column_family().
column_family(T) ==
  IF T = "TestUser" THEN "test_users"
  ELSE IF T = "Member" THEN "members"
  ELSE "events"

\* The index keys of the events, computed once.
TimestampIndex ==
  [c \in ConfigIds, t \in Instants |-> generate_timestamp_index(c, t)]

\* Keyable::key().
key(T, r) ==
  IF T \in SharedKeyTypes THEN r.id ELSE TimestampIndex[r.config_id, r.ts]

ColumnFamilies == {column_family(T) : T \in RecordTypes}

\* The column families of all the types, SharedKeyTypes included.
AllColumnFamilies ==
  {column_family(T) : T \in RecordTypes \cup SharedKeyTypes}

\* The record types keyed by generate_timestamp_index: those that
\* filter_by_time_index is called for and keep_size is raced on.
TimeIndexed == {"Event"}

(* -------------------------------- codec ------------------------------- *)

\* The field names serde derives for each type, in declaration order.
FieldNames(T) ==
  IF T \in SharedKeyTypes THEN <<Bytes(<<"i", "d">>), Bytes(<<"n", "a", "m", "e">>)>>
  ELSE <<Bytes(<<"c", "o", "n", "f", "i", "g", "_", "i", "d">>),
         Bytes(<<"t", "s">>)>>

\* The value of a decimal digit string.
RECURSIVE ParseDigits(_, _)
ParseDigits(s, acc) ==
  IF s = <<>> THEN acc ELSE ParseDigits(Tail(s), 10 * acc + (Head(s) - 48))

IsDigitString(s) == Len(s) > 0 /\ \A i \in 1..Len(s) : s[i] \in 48..57

\* serialize_to_bytes writing each member's value under the other's name.
serialize_to_bytes_swapped(T, r) ==
  IF T \in SharedKeyTypes
  THEN Ok(<<FieldNames(T)[1], r.name, FieldNames(T)[2], r.id>>)
  ELSE Ok(<<FieldNames(T)[1], DigitString(ToDigits(r.ts)),
            FieldNames(T)[2], r.config_id>>)

\* serde_json::to_vec: the JSON object of the record, as its sequence of
\* member names and member values (each a byte string; a number is printed
\* in decimal).
serialize_to_bytes(T, r) ==
  IF T \in SharedKeyTypes
  THEN Ok(<<FieldNames(T)[1], r.id, FieldNames(T)[2], r.name>>)
  ELSE Ok(<<FieldNames(T)[1], r.config_id,
            FieldNames(T)[2], DigitString(ToDigits(r.ts))>>)

\* serde_json::from_slice: fails unless the bytes are an object with the
\* members of T, a numeric member holding a number.
deserialize_from_bytes(T, bytes) ==
  IF /\ Len(bytes) = 4
     /\ bytes[1] = FieldNames(T)[1]
     /\ bytes[3] = FieldNames(T)[2]
     /\ (T = "Event" => IsDigitString(bytes[4]))
  THEN IF T \in SharedKeyTypes
       THEN Ok([id |-> bytes[2], name |-> bytes[4]])
       ELSE Ok([config_id |-> bytes[2], ts |-> ParseDigits(bytes[4], 0)])
  ELSE Err(ErrDecode)

(* ---------------------------- sorted storage -------------------------- *)

\* A column family's contents: a function from the stored keys to values.
EmptyMap == [k \in {} |-> <<>>]

\* Put as an insert that leaves a stored key alone.
PutIfAbsent(m, k, v) ==
  [x \in (DOMAIN m) \cup {k} |-> IF x \in DOMAIN m THEN m[x] ELSE v]

\* put_cf: insert or overwrite.
Put(m, k, v) == [x \in (DOMAIN m) \cup {k} |-> IF x = k THEN v ELSE m[x]]

\* delete_cf / WriteBatch deletes: remove the keys that are present.
DeleteKeys(m, gone) == [x \in (DOMAIN m) \ gone |-> m[x]]

\* The keys of S in ascending byte-wise order.
RECURSIVE SortedKeys(_)
SortedKeys(S) ==
  IF S = {} THEN <<>>
  ELSE LET k == CHOOSE x \in S : \A y \in S : StrLeq(x, y)
       IN <<k>> \o SortedKeys(S \ {k})

\* Entries as IteratorMode::End yields them: in descending key order.
EntriesFromEnd(m) ==
  LET ks == SortedKeys(DOMAIN m)
  IN [i \in 1..Len(ks) |-> <<ks[Len(ks) + 1 - i], m[ks[Len(ks) + 1 - i]]>>]

\* iterator_cf(cf, IteratorMode::Start): the (key, value) pairs in
\* ascending key order.
Entries(m) ==
  LET ks == SortedKeys(DOMAIN m)
  IN [i \in 1..Len(ks) |-> <<ks[i], m[ks[i]]>>]

(* -------------------------------- state ------------------------------- *)

VARIABLES
  instance,  \* the OnceLock<DbContext>: <<>> while unset, else <<ctx>>
  store,     \* the opened database: column family name -> contents
  result,    \* the last call: operation, record type, arguments, return
  pre,       \* store as it was when the last call (or step) began
  written,   \* per column family: key -> record of the last successful set
             \* not followed by a delete of that key
  pc,        \* per concurrent keep_size caller: its position
  ks         \* per concurrent keep_size caller: its local variables

vars == <<instance, store, result, pre, written, pc, ks>>

\* The inputs of DbContext::initialize.
Paths == {"db1", "db2"}
CfLists == {ColumnFamilies, {"test_users"}}

\* DbContext::get_instance(): the installed context (panics when unset).
get_instance == instance[1]

\* Handle with cf_handle(..).expect(..) for .context(..)?: a column family
\* that was not opened unwinds the call.
HandleExpecting(T) ==
  IF instance = <<>> THEN Panic(NotInitialized)
  ELSE IF column_family(T) \notin get_instance.cfs THEN Panic(ErrHandle)
  ELSE Ok(column_family(T))

\* The start of every accessor method: get_instance() (panics when the
\* OnceLock is unset), then cf_handle(T::column_family()) with .context(..)?
\* (None when the name was not opened).
Handle(T) ==
  IF instance = <<>> THEN Panic(NotInitialized)
  ELSE IF column_family(T) \notin get_instance.cfs THEN Err(ErrHandle)
  ELSE Ok(column_family(T))

\* The keys T's column family holds.
KeysOfCf(T) == DOMAIN store[column_family(T)]

\* The entries an iterator over T's column family yields.
CfEntries(T) == Entries(store[column_family(T)])

\* The positions at which an iteration over T's column family can yield an
\* error item: 0 is "never", i is "instead of the i-th entry" (the position
\* after the last entry is the iterator ending with an error status).
IoPoints(T) ==
  IF IsOk(Handle(T))
  THEN 0..(Cardinality(DOMAIN store[column_family(T)]) + 1)
  ELSE {0}

(* ------------------------------ accessor ------------------------------ *)

\* GetAllLoop that skips a value which does not decode.
RECURSIVE GetAllLoopSkipping(_, _, _, _, _)
GetAllLoopSkipping(T, es, i, io, items) ==
  IF io = i THEN Err(ErrRead)
  ELSE IF i > Len(es) THEN Ok(items)
  ELSE LET d == deserialize_from_bytes(T, es[i][2])
       IN GetAllLoopSkipping(T, es, i + 1, io,
                             IF IsErr(d) THEN items ELSE Append(items, d.val))

\* get_all's loop from entry i on: an error item aborts, a value that does
\* not decode aborts, else the decoded item is pushed.
RECURSIVE GetAllLoop(_, _, _, _, _)
GetAllLoop(T, es, i, io, items) ==
  IF io = i THEN Err(ErrRead)
  ELSE IF i > Len(es) THEN Ok(items)
  ELSE LET d == deserialize_from_bytes(T, es[i][2])
       IN IF IsErr(d) THEN d
          ELSE GetAllLoop(T, es, i + 1, io, Append(items, d.val))

\* ColumnFamily::get_all.
get_all(T, io) ==
  IF ~IsOk(Handle(T)) THEN Handle(T)
  ELSE GetAllLoop(T, CfEntries(T), 1, io, <<>>)

\* ColumnFamily::get; io is whether get_cf fails.
get(T, k, io) ==
  IF ~IsOk(Handle(T)) THEN Handle(T)
  ELSE IF io THEN Err(ErrRead)
  ELSE IF k \in DOMAIN store[column_family(T)]
       THEN LET d == deserialize_from_bytes(T, store[column_family(T)][k])
            IN IF IsErr(d) THEN d ELSE Ok(Some(d.val))
       ELSE Ok(None)

\* CountLoop ending one entry early.
RECURSIVE CountLoopShort(_, _, _, _)
CountLoopShort(es, i, io, count) ==
  IF io = i THEN Err(ErrRead)
  ELSE IF i >= Len(es) THEN Ok(count)
  ELSE CountLoopShort(es, i + 1, io, count + 1)

\* count_all's loop from entry i on: an error item aborts, else count += 1.
RECURSIVE CountLoop(_, _, _, _)
CountLoop(es, i, io, count) ==
  IF io = i THEN Err(ErrRead)
  ELSE IF i > Len(es) THEN Ok(count)
  ELSE CountLoop(es, i + 1, io, count + 1)

\* count_all as the length of get_all (which decodes every value).
count_all_decoding(T, io) ==
  IF ~IsOk(get_all(T, io)) THEN get_all(T, io)
  ELSE Ok(Len(get_all(T, io).val))

\* ColumnFamily::count_all.
count_all(T, io) ==
  IF ~IsOk(Handle(T)) THEN Handle(T)
  ELSE CountLoop(CfEntries(T), 1, io, 0)

\* Every column family replaced by m.
WithCfEverywhere(T, m) == [cf \in DOMAIN store |-> m]

\* T's column family replaced by m.
WithCf(T, m) == [store EXCEPT ![column_family(T)] = m]

\* set as insert-only: a stored key is left as it is.
set_insert_only(T, item, io) ==
  IF ~IsOk(Handle(T)) THEN [ret |-> Handle(T), db |-> store]
  ELSE IF io THEN [ret |-> Err(ErrWrite), db |-> store]
  ELSE [ret |-> Ok(Unit),
        db |-> [store EXCEPT ![column_family(T)] =
                  PutIfAbsent(@, key(T, item),
                              serialize_to_bytes(T, item).val)]]

\* ColumnFamily::set: the return value and the database after the call
\* (io is whether put_cf fails).
set(T, item, io) ==
  IF ~IsOk(Handle(T)) THEN [ret |-> Handle(T), db |-> store]
  ELSE LET v == serialize_to_bytes(T, item)
       IN IF ~IsOk(v) THEN [ret |-> v, db |-> store]
          ELSE IF io THEN [ret |-> Err(ErrWrite), db |-> store]
          ELSE [ret |-> Ok(Unit),
                db |-> WithCf(T, Put(store[column_family(T)],
                                     key(T, item), v.val))]

\* del that reports a key which is not stored as a failure.
del_strict(T, k, io) ==
  IF ~IsOk(Handle(T)) THEN [ret |-> Handle(T), db |-> store]
  ELSE IF io \/ k \notin DOMAIN store[column_family(T)]
  THEN [ret |-> Err(ErrDelete), db |-> store]
  ELSE [ret |-> Ok(Unit),
        db |-> WithCf(T, DeleteKeys(store[column_family(T)], {k}))]

\* ColumnFamily::del: the return value and the database after the call
\* (io is whether delete_cf fails).
del(T, k, io) ==
  IF ~IsOk(Handle(T)) THEN [ret |-> Handle(T), db |-> store]
  ELSE IF io THEN [ret |-> Err(ErrDelete), db |-> store]
  ELSE [ret |-> Ok(Unit),
        db |-> WithCf(T, DeleteKeys(store[column_family(T)], {k}))]

\* CollectLoop comparing the 1-based position with items_to_keep: one key
\* fewer is collected.
RECURSIVE CollectLoopShort(_, _, _, _, _)
CollectLoopShort(es, i, io, items_to_keep, keys_to_delete) ==
  IF io = i THEN Err(ErrRead)
  ELSE IF i > Len(es) THEN Ok(keys_to_delete)
  ELSE IF i < items_to_keep
       THEN CollectLoopShort(es, i + 1, io, items_to_keep,
                             Append(keys_to_delete, es[i][1]))
       ELSE Ok(keys_to_delete)

\* CollectLoop with <= for <: one key more is collected.
RECURSIVE CollectLoopLong(_, _, _, _, _)
CollectLoopLong(es, i, io, items_to_keep, keys_to_delete) ==
  IF io = i THEN Err(ErrRead)
  ELSE IF i > Len(es) THEN Ok(keys_to_delete)
  ELSE IF i - 1 <= items_to_keep
       THEN CollectLoopLong(es, i + 1, io, items_to_keep,
                            Append(keys_to_delete, es[i][1]))
       ELSE Ok(keys_to_delete)

\* keep_size's re-scan from entry i on (1-based; the code's index is i - 1):
\* an error item aborts; the first items_to_keep keys are collected and the
\* loop breaks at the next entry.
RECURSIVE CollectLoop(_, _, _, _, _)
CollectLoop(es, i, io, items_to_keep, keys_to_delete) ==
  IF io = i THEN Err(ErrRead)
  ELSE IF i > Len(es) THEN Ok(keys_to_delete)
  ELSE IF i - 1 < items_to_keep
       THEN CollectLoop(es, i + 1, io, items_to_keep,
                        Append(keys_to_delete, es[i][1]))
       ELSE Ok(keys_to_delete)

\* The batch built from keys_to_delete without its first key.
RangeSkipFirst(seq) == {seq[i] : i \in 2..Len(seq)}

\* The batch a WriteBatch of deletes applies atomically.
Range(seq) == {seq[i] : i \in 1..Len(seq)}

\* The first failure of the engine during a keep_size call: none, the
\* count's iteration at point i, the re-scan's iteration at point i, or
\* db.write.
KsIoPoints(T) ==
  {<<"none", 0>>, <<"write", 0>>}
    \cup {<<ph, i>> : ph \in {"count", "collect"}, i \in IoPoints(T) \ {0}}

IoAt(io, phase) == IF io[1] = phase THEN io[2] ELSE 0

\* keep_size deleting each key as the re-scan reaches it, not in a batch
\* after the loop: a re-scan that fails at entry i has deleted the keys
\* collected before it.
keep_size_eager(T, size, io) ==
  LET current_count == count_all(T, IoAt(io, "count"))
  IN IF ~IsOk(current_count) THEN [ret |-> current_count, db |-> store]
     ELSE IF current_count.val <= size THEN [ret |-> Ok(Unit), db |-> store]
     ELSE LET keys == CollectLoop(CfEntries(T), 1, IoAt(io, "collect"),
                                  current_count.val - size, <<>>)
              done == CollectLoop(CfEntries(T), 1, 0,
                                  IF IoAt(io, "collect") = 0
                                  THEN current_count.val - size
                                  ELSE IF IoAt(io, "collect") - 1
                                            < current_count.val - size
                                       THEN IoAt(io, "collect") - 1
                                       ELSE current_count.val - size,
                                  <<>>)
          IN [ret |-> IF ~IsOk(keys) THEN keys
                      ELSE IF io[1] = "write" THEN Err(ErrBatch)
                      ELSE Ok(Unit),
              db |-> IF io[1] = "write" THEN store
                     ELSE WithCf(T, DeleteKeys(store[column_family(T)],
                                               Range(done.val)))]

\* ColumnFamily::keep_size run without interleaving: the return value and
\* the database after the call.
keep_size(T, size, io) ==
  LET current_count == count_all(T, IoAt(io, "count"))
  IN IF ~IsOk(current_count) THEN [ret |-> current_count, db |-> store]
     ELSE IF current_count.val <= size THEN [ret |-> Ok(Unit), db |-> store]
     ELSE LET keys == CollectLoop(CfEntries(T), 1, IoAt(io, "collect"),
                                  current_count.val - size, <<>>)
          IN IF ~IsOk(keys) THEN [ret |-> keys, db |-> store]
             ELSE IF io[1] = "write"
             THEN [ret |-> Err(ErrBatch), db |-> store]
             ELSE [ret |-> Ok(Unit),
                   db |-> WithCf(T, DeleteKeys(store[column_family(T)],
                                               Range(keys.val)))]

\* filter_by_time_index's loop from entry i on: an error item aborts; an
\* entry whose key is within [start_key, end_key] is decoded and pushed.
\* (String::from_utf8 cannot fail on the ASCII keys of the model.)
RECURSIVE FilterLoop(_, _, _, _, _, _, _)
FilterLoop(T, es, i, io, start_key, end_key, items) ==
  IF io = i THEN Err(ErrRead)
  ELSE IF i > Len(es) THEN Ok(items)
  ELSE IF StrLeq(start_key, es[i][1]) /\ StrLeq(es[i][1], end_key)
       THEN LET d == deserialize_from_bytes(T, es[i][2])
            IN IF IsErr(d) THEN d
               ELSE FilterLoop(T, es, i + 1, io, start_key, end_key,
                               Append(items, d.val))
       ELSE FilterLoop(T, es, i + 1, io, start_key, end_key, items)

\* The bound key filter_by_time_index computes for an instant:
\* (max_timestamp - t).to_string().
BoundKey(t) == to_string(InvertedTimestamp(t))

\* ColumnFamily::filter_by_time_index.
filter_by_time_index(T, start_time, end_time, io) ==
  IF ~IsOk(Handle(T)) THEN Handle(T)
  ELSE FilterLoop(T, CfEntries(T), 1, io,
                  BoundKey(end_time), BoundKey(start_time), <<>>)

(* ------------------------------- actions ------------------------------ *)

\* The callers that run keep_size concurrently, and their positions:
\* "idle" (not in a call), "collect" (counted, about to re-scan),
\* "write" (keys collected, about to write the batch).
Procs == {1, 2}

\* A caller's local variables of keep_size (T, size, current_count,
\* keys_to_delete, the value returned) and what is recorded about its call:
\*   counted_keys       the keys stored when it counted;
\*   interfered         a set landed between its count and its re-scan;
\*   raced              another keep_size's batch deleted entries of the
\*                      column family between its count and its re-scan;
\*   set_selected       a set wrote a key it had collected, before its batch;
\*   selection_changed  it collected other keys than a re-scan at the time
\*                      of the count would have;
\*   evicted_set        its batch removed a record that a set wrote after
\*                      its count.
KsIdle ==
  [T |-> "TestUser", size |-> 0, current_count |-> 0, keys_to_delete |-> <<>>,
   ret |-> Ok(Unit), counted_keys |-> {}, interfered |-> FALSE,
   raced |-> FALSE, set_selected |-> FALSE, selection_changed |-> FALSE,
   evicted_set |-> FALSE]

NoCall ==
  [op |-> "none", T |-> "", args |-> <<>>, io |-> <<>>, ret |-> Ok(Unit)]

Init ==
  /\ instance = <<>>
  /\ store = [cf \in {} |-> EmptyMap]
  /\ result = NoCall
  /\ pre = store
  /\ written = [cf \in AllColumnFamilies |-> EmptyMap]
  /\ pc = [p \in Procs |-> "idle"]
  /\ ks = [p \in Procs |-> KsIdle]

\* What a call leaves in result: the operation, the record type of the
\* accessor, the arguments, what the engine was made to do (io) and the
\* value returned.
Call(op, T, args, io, ret) ==
  [op |-> op, T |-> T, args |-> args, io |-> <<io>>, ret |-> ret]

\* The caller whose calls are recorded in result is between two calls.
Ready == result.op = "none"

\* initialize with a context cell that a later call overwrites.
InitializeReplacing(db_path, column_families, open_ok) ==
  /\ Ready
  /\ IF ~open_ok
     THEN /\ result' = Call("initialize", "", <<db_path, column_families>>,
                            open_ok, Err(ErrOpen))
          /\ UNCHANGED <<instance, store>>
     ELSE /\ instance' = <<[path |-> db_path, cfs |-> column_families]>>
          /\ store' = [cf \in column_families |-> EmptyMap]
          /\ result' = Call("initialize", "", <<db_path, column_families>>,
                            open_ok, Ok(Unit))
  /\ pre' = store
  /\ UNCHANGED <<written, pc, ks>>

\* DbContext::initialize(db_path, column_families): open the database (the
\* engine decides whether that succeeds), then OnceLock::set, which installs
\* the context only if none is installed.  A fresh database directory holds
\* the requested column families, empty.
Initialize(db_path, column_families, open_ok) ==
  /\ Ready
  /\ IF ~open_ok
     THEN /\ result' = Call("initialize", "", <<db_path, column_families>>,
                            open_ok, Err(ErrOpen))
          /\ UNCHANGED <<instance, store>>
     ELSE IF instance = <<>>
     THEN /\ instance' = <<[path |-> db_path, cfs |-> column_families]>>
          /\ store' = [cf \in column_families |-> EmptyMap]
          /\ result' = Call("initialize", "", <<db_path, column_families>>,
                            open_ok, Ok(Unit))
     ELSE /\ result' = Call("initialize", "", <<db_path, column_families>>,
                            open_ok, Err(ErrInitialized))
          /\ UNCHANGED <<instance, store>>
  /\ pre' = store
  /\ UNCHANGED <<written, pc, ks>>

GetAll(T, io) ==
  /\ Ready
  /\ result' = Call("get_all", T, <<>>, io, get_all(T, io))
  /\ pre' = store
  /\ UNCHANGED <<instance, store, written, pc, ks>>

Get(T, k, io) ==
  /\ Ready
  /\ result' = Call("get", T, <<k>>, io, get(T, k, io))
  /\ pre' = store
  /\ UNCHANGED <<instance, store, written, pc, ks>>

CountAll(T, io) ==
  /\ Ready
  /\ result' = Call("count_all", T, <<>>, io, count_all(T, io))
  /\ pre' = store
  /\ UNCHANGED <<instance, store, written, pc, ks>>

\* The bookkeeping of written: record r set under key k; the keys gone
\* deleted.
Remember(m, k, r) == [x \in (DOMAIN m) \cup {k} |-> IF x = k THEN r ELSE m[x]]
Forget(m, gone) == [x \in (DOMAIN m) \ gone |-> m[x]]

\* The effect of a set on the state, whoever calls it.
DoSet(T, item, io) ==
  LET r == set(T, item, io)
  IN /\ result' = Call("set", T, <<item>>, io, r.ret)
     /\ store' = r.db
     /\ pre' = store
     /\ written' = IF IsOk(r.ret)
                   THEN [written EXCEPT ![column_family(T)] =
                           Remember(@, key(T, item), item)]
                   ELSE written

Set(T, item, io) ==
  /\ Ready
  /\ DoSet(T, item, io)
  /\ UNCHANGED <<instance, pc, ks>>

Del(T, k, io) ==
  LET r == del(T, k, io)
  IN /\ Ready
     /\ result' = Call("del", T, <<k>>, io, r.ret)
     /\ store' = r.db
     /\ pre' = store
     /\ written' = IF IsOk(r.ret)
                   THEN [written EXCEPT ![column_family(T)] =
                           Forget(@, {k})]
                   ELSE written
     /\ UNCHANGED <<instance, pc, ks>>

\* The keys of T's column family that db holds no more.
Removed(T, db) ==
  IF IsOk(Handle(T))
  THEN (DOMAIN store[column_family(T)]) \ (DOMAIN db[column_family(T)])
  ELSE {}

KeepSize(T, size, io) ==
  LET r == keep_size(T, size, io)
  IN /\ Ready
     /\ result' = Call("keep_size", T, <<size>>, io, r.ret)
     /\ store' = r.db
     /\ pre' = store
     /\ written' = [written EXCEPT ![column_family(T)] =
                      Forget(@, Removed(T, r.db))]
     /\ UNCHANGED <<instance, pc, ks>>

FilterByTimeIndex(T, start_time, end_time, io) ==
  /\ Ready
  /\ result' = Call("filter_by_time_index", T, <<start_time, end_time>>, io,
                    filter_by_time_index(T, start_time, end_time, io))
  /\ pre' = store
  /\ UNCHANGED <<instance, store, written, pc, ks>>

\* The caller takes the returned value and goes on to its next statement:
\* the record of the call does not outlive it.
Return ==
  /\ result.op # "none"
  /\ result' = NoCall
  /\ pre' = store
  /\ UNCHANGED <<instance, store, written, pc, ks>>

\* The keys the callers use: those of the records of T.
Keys(T) == {key(T, r) : r \in Records(T)}

\* The instants filter_by_time_index is called with: 50, 100, 150, ...
QueryInstants == {50 * i : i \in 1..(2 * NumInstants + 1)}

\* One call of the API by the single caller, or its return.
Next ==
  \/ Ready /\ \E p \in Paths, l \in CfLists, ok \in BOOLEAN :
                Initialize(p, l, ok)
  \/ Ready /\ \E T \in RecordTypes : \E io \in IoPoints(T) : GetAll(T, io)
  \/ Ready /\ \E T \in RecordTypes : \E k \in Keys(T), io \in BOOLEAN :
                Get(T, k, io)
  \/ Ready /\ \E T \in RecordTypes : \E io \in IoPoints(T) : CountAll(T, io)
  \/ Ready /\ \E T \in RecordTypes : \E r \in Records(T), io \in BOOLEAN :
                Set(T, r, io)
  \/ Ready /\ \E T \in RecordTypes : \E k \in Keys(T), io \in BOOLEAN :
                Del(T, k, io)
  \/ Ready /\ \E T \in RecordTypes, size \in 0..MaxSize :
                \E io \in KsIoPoints(T) : KeepSize(T, size, io)
  \/ Ready /\ \E T \in TimeIndexed, a \in QueryInstants, b \in QueryInstants :
                \E io \in IoPoints(T) : FilterByTimeIndex(T, a, b, io)
  \/ Return

\* The accessor and the context used by one caller at a time.
Spec == Init /\ [][Next]_vars

(* ------------------- writes that bypass the accessor ------------------ *)

\* Bytes that are no JSON object of any record type.
Garbage == <<Bytes(<<"X">>)>>

\* DbContext.db is a public field: code outside ColumnFamily<T> (or an
\* accessor for another type bound to the same column family) can put any
\* bytes under any key: DbContext::get_instance().db.put_cf(cf, k, v).
PutRaw(T, k, v) ==
  /\ Ready
  /\ result' = Call("put_cf", T, <<k, v>>, FALSE,
                    IF IsOk(Handle(T)) THEN Ok(Unit) ELSE Handle(T))
  /\ store' = IF IsOk(Handle(T))
              THEN WithCf(T, Put(store[column_family(T)], k, v))
              ELSE store
  /\ pre' = store
  /\ UNCHANGED <<instance, written, pc, ks>>

NextRaw ==
  \/ Ready /\ \E l \in CfLists, ok \in BOOLEAN : Initialize("db1", l, ok)
  \/ Ready /\ \E T \in RecordTypes : \E k \in Keys(T) : PutRaw(T, k, Garbage)
  \/ Ready /\ \E T \in RecordTypes : \E r \in Records(T), io \in BOOLEAN :
                Set(T, r, io)
  \/ Ready /\ \E T \in RecordTypes : \E k \in Keys(T), io \in BOOLEAN :
                Del(T, k, io)
  \/ Ready /\ \E T \in RecordTypes : \E io \in IoPoints(T) : GetAll(T, io)
  \/ Ready /\ \E T \in RecordTypes : \E k \in Keys(T), io \in BOOLEAN :
                Get(T, k, io)
  \/ Ready /\ \E T \in RecordTypes : \E io \in IoPoints(T) : CountAll(T, io)
  \/ Return

\* One caller at a time, the column families also written to directly.
SpecRaw == Init /\ [][NextRaw]_vars

(* ------------------- two column families, same keys ----------------- *)

\* The column families of the types that share their key strings.
SharedKeyCfs == {column_family(T) : T \in SharedKeyTypes}

NextShared ==
  \/ Ready /\ \E ok \in BOOLEAN : Initialize("db1", SharedKeyCfs, ok)
  \/ Ready /\ \E T \in SharedKeyTypes : \E r \in Records(T), io \in BOOLEAN :
                Set(T, r, io)
  \/ Ready /\ \E T \in SharedKeyTypes : \E k \in Keys(T), io \in BOOLEAN :
                Del(T, k, io)
  \/ Ready /\ \E T \in SharedKeyTypes, size \in 0..MaxSize :
                \E io \in KsIoPoints(T) : KeepSize(T, size, io)
  \/ Return

\* One caller at a time, writing through the accessors of two types whose
\* records have the same keys.
SpecShared == Init /\ [][NextShared]_vars

(* ----------------------------- key index ------------------------------ *)

\* Instants of the supported domain 0..i64::MAX, as the decimal digits of
\* their unix seconds: small ones, ones at which the subtraction borrows,
\* the two around i64::MAX - 10^18 (where the inverted value goes from 19
\* digits to 18) and the largest.
IndexInstants ==
  {<<0>>,
   <<1>>,
   <<9>>,
   <<1, 0>>,
   <<1, 0, 0>>,
   <<2, 0, 0>>,
   <<3, 0, 0>>,
   <<8, 0, 7>>,
   <<8, 0, 8>>,
   <<5, 8, 0, 7>>,
   <<5, 8, 0, 8>>,
   <<8, 2, 2, 3, 3, 7, 2, 0, 3, 6, 8, 5, 4, 7, 7, 5, 8, 0, 7>>,
   <<8, 2, 2, 3, 3, 7, 2, 0, 3, 6, 8, 5, 4, 7, 7, 5, 8, 0, 8>>,
   <<9, 2, 2, 3, 3, 7, 2, 0, 3, 6, 8, 5, 4, 7, 7, 5, 7, 0, 7>>,
   <<9, 2, 2, 3, 3, 7, 2, 0, 3, 6, 8, 5, 4, 7, 7, 5, 8, 0, 6>>,
   <<9, 2, 2, 3, 3, 7, 2, 0, 3, 6, 8, 5, 4, 7, 7, 5, 8, 0, 7>>}

\* Discriminators (config_id), among them ones that start with a digit or
\* with the delimiter.
IndexIds == {Bytes(<<"a">>), Bytes(<<"0">>), Bytes(<<"_", "b">>)}

\* A caller about to compute the index keys of two events.
InitIndex ==
  /\ instance = <<>>
  /\ store = [cf \in {} |-> EmptyMap]
  /\ \E id1 \in IndexIds, t1 \in IndexInstants,
        id2 \in IndexIds, t2 \in IndexInstants :
       result = [op |-> "none", T |-> "", args |-> <<id1, t1, id2, t2>>,
                 io |-> <<>>, ret |-> Ok(Unit)]
  /\ pre = store
  /\ written = [cf \in AllColumnFamilies |-> EmptyMap]
  /\ pc = [p \in Procs |-> "idle"]
  /\ ks = [p \in Procs |-> KsIdle]

\* The caller computes both keys with generate_timestamp_index.
GenerateTimestampIndex ==
  /\ result.op = "none"
  /\ result' =
       [result EXCEPT
          !.op = "generate_timestamp_index",
          !.ret = Ok(<<TimestampIndexOf(result.args[1], result.args[2]),
                       TimestampIndexOf(result.args[3], result.args[4])>>)]
  /\ UNCHANGED <<instance, store, pre, written, pc, ks>>

NextIndex == GenerateTimestampIndex

\* generate_timestamp_index applied to pairs of events.
SpecIndex == InitIndex /\ [][NextIndex]_vars

(* ------------------------ keep_size, interleaved --------------------- *)

\* The first n elements of a sequence.
Take(seq, n) == SubSeq(seq, 1, IF n < Len(seq) THEN n ELSE Len(seq))

\* keep_size, lines 214-217: caller p counts; an error or a count within
\* size ends the call, else p goes on to the re-scan.
KsBegin(p, T, size, io) ==
  LET current_count == count_all(T, io)
      called == [KsIdle EXCEPT !.T = T, !.size = size]
  IN /\ pc[p] = "idle"
     /\ IF ~IsOk(current_count)
        THEN /\ pc' = [pc EXCEPT ![p] = "done"]
             /\ ks' = [ks EXCEPT ![p] = [called EXCEPT !.ret = current_count]]
        ELSE IF current_count.val <= size
        THEN /\ pc' = [pc EXCEPT ![p] = "done"]
             /\ ks' = [ks EXCEPT ![p] =
                         [called EXCEPT !.current_count = current_count.val]]
        ELSE /\ pc' = [pc EXCEPT ![p] = "collect"]
             /\ ks' = [ks EXCEPT ![p] =
                         [called EXCEPT !.current_count = current_count.val,
                                        !.counted_keys = KeysOfCf(T)]]
     /\ UNCHANGED <<instance, store, result, pre, written>>

\* KsCollect with items_to_keep = size: the number of entries to keep is
\* taken for the number to delete.
KsCollectKeepsSize(p, io) ==
  LET keys == CollectLoop(CfEntries(ks[p].T), 1, io, ks[p].size, <<>>)
  IN /\ pc[p] = "collect"
     /\ IF ~IsOk(keys)
        THEN /\ pc' = [pc EXCEPT ![p] = "done"]
             /\ ks' = [ks EXCEPT ![p].ret = keys, ![p].counted_keys = {}]
        ELSE /\ pc' = [pc EXCEPT ![p] = "write"]
             /\ ks' = [ks EXCEPT ![p].keys_to_delete = keys.val]
     /\ UNCHANGED <<instance, store, result, pre, written>>

\* keep_size, lines 219-245: caller p re-scans with a new iterator and
\* collects the keys to delete.
KsCollect(p, io) ==
  LET items_to_keep == ks[p].current_count - ks[p].size
      keys == CollectLoop(CfEntries(ks[p].T), 1, io, items_to_keep, <<>>)
  IN /\ pc[p] = "collect"
     /\ IF ~IsOk(keys)
        THEN /\ pc' = [pc EXCEPT ![p] = "done"]
             /\ ks' = [ks EXCEPT ![p].ret = keys, ![p].counted_keys = {}]
        ELSE /\ pc' = [pc EXCEPT ![p] = "write"]
             /\ ks' = [ks EXCEPT
                         ![p].keys_to_delete = keys.val,
                         ![p].selection_changed =
                            keys.val # Take(SortedKeys(ks[p].counted_keys),
                                            items_to_keep)]
     /\ UNCHANGED <<instance, store, result, pre, written>>

\* keep_size, lines 247-250: caller p writes its batch of deletes.
KsWrite(p, io) ==
  LET T == ks[p].T
      gone == Range(ks[p].keys_to_delete) \cap KeysOfCf(T)
  IN /\ pc[p] = "write"
     /\ pc' = [pc EXCEPT ![p] = "done"]
     /\ IF io
        THEN /\ ks' = [ks EXCEPT ![p].ret = Err(ErrBatch),
                                 ![p].keys_to_delete = <<>>,
                                 ![p].counted_keys = {}]
             /\ UNCHANGED <<store, written>>
        ELSE /\ store' = WithCf(T, DeleteKeys(store[column_family(T)],
                                              Range(ks[p].keys_to_delete)))
             /\ written' = [written EXCEPT ![column_family(T)] =
                              Forget(@, gone)]
             /\ ks' = [q \in Procs |->
                         IF q = p
                         THEN [ks[q] EXCEPT
                                 !.evicted_set =
                                    \/ ks[q].set_selected
                                    \/ gone \ ks[q].counted_keys # {},
                                 !.keys_to_delete = <<>>,
                                 !.counted_keys = {}]
                         ELSE IF pc[q] = "collect" /\ ks[q].T = T
                                   /\ gone # {}
                         THEN [ks[q] EXCEPT !.raced = TRUE]
                         ELSE ks[q]]
     /\ UNCHANGED <<instance, result, pre>>

\* Caller p takes the value keep_size returned.
KsReturn(p) ==
  /\ pc[p] = "done"
  /\ pc' = [pc EXCEPT ![p] = "idle"]
  /\ ks' = [ks EXCEPT ![p] = KsIdle]
  /\ UNCHANGED <<instance, store, result, pre, written>>

\* A set by another thread, at any moment of the keep_size calls.
ConcurrentSet(T, item, io) ==
  LET r == set(T, item, io)
  IN /\ store' = r.db
     /\ written' = IF IsOk(r.ret)
                   THEN [written EXCEPT ![column_family(T)] =
                           Remember(@, key(T, item), item)]
                   ELSE written
     /\ ks' = [q \in Procs |->
                 IF IsOk(r.ret) /\ ks[q].T = T /\ pc[q] = "collect"
                 THEN [ks[q] EXCEPT !.interfered = TRUE]
                 ELSE IF IsOk(r.ret) /\ ks[q].T = T /\ pc[q] = "write"
                           /\ key(T, item) \in Range(ks[q].keys_to_delete)
                 THEN [ks[q] EXCEPT !.set_selected = TRUE]
                 ELSE ks[q]]
     /\ UNCHANGED <<instance, result, pre, pc>>

\* A set while no keep_size call is under way.
QuietSet(T, item, io) ==
  /\ \A p \in Procs : pc[p] = "idle"
  /\ ConcurrentSet(T, item, io)

\* The state once initialize has installed a database with every column
\* family.
InitConc ==
  /\ instance = <<[path |-> "db1", cfs |-> ColumnFamilies]>>
  /\ store = [cf \in ColumnFamilies |-> EmptyMap]
  /\ result = NoCall
  /\ pre = store
  /\ written = [cf \in AllColumnFamilies |-> EmptyMap]
  /\ pc = [p \in Procs |-> "idle"]
  /\ ks = [p \in Procs |-> KsIdle]

NextRace ==
  \/ \E T \in TimeIndexed : \E r \in Records(T), io \in BOOLEAN :
       QuietSet(T, r, io)
  \/ \E p \in Procs, T \in TimeIndexed, size \in 0..MaxSize :
       \E io \in IoPoints(T) : KsBegin(p, T, size, io)
  \/ \E p \in Procs : \E io \in IoPoints(ks[p].T) : KsCollect(p, io)
  \/ \E p \in Procs, io \in BOOLEAN : KsWrite(p, io)
  \/ \E p \in Procs : KsReturn(p)

\* Two callers of keep_size, their steps interleaved, and no other writer
\* while either is in its call.
SpecRace == InitConc /\ [][NextRace]_vars

NextSet ==
  \/ \E T \in RecordTypes : \E r \in Records(T), io \in BOOLEAN :
       ConcurrentSet(T, r, io)
  \/ \E T \in RecordTypes, size \in 0..MaxSize :
       \E io \in IoPoints(T) : KsBegin(1, T, size, io)
  \/ \E io \in IoPoints(ks[1].T) : KsCollect(1, io)
  \/ \E io \in BOOLEAN : KsWrite(1, io)
  \/ KsReturn(1)

\* One caller of keep_size and a thread that sets, their steps interleaved.
SpecSet == InitConc /\ [][NextSet]_vars

(* ---------------------- what the claims speak of ---------------------- *)

\* The last call was op through the accessor for T and returned Ok.
Returned(op, T) == result.op = op /\ result.T = T /\ IsOk(result.ret)

\* The keys T's column family held when the last call began, and holds now.
KeysBefore(T) == DOMAIN pre[column_family(T)]
KeysNow(T) == DOMAIN store[column_family(T)]

\* The records of the events column family (each was set under its index
\* key) whose instant lies in [a, b].
EventsWithin(a, b) ==
  {written["events"][k] : k \in {x \in DOMAIN written["events"] :
                                   /\ a <= written["events"][x].ts
                                   /\ written["events"][x].ts <= b}}

\* The event whose encoding is stored under key k of m.
EventAt(m, k) == deserialize_from_bytes("Event", m[k]).val

(* -------------------------------- C1 ---------------------------------- *)

\* C1 (the claim as written): on the events namespace, whose keys all come
\* from generate_timestamp_index, filter_by_time_index(a, b) returns exactly
\* the records whose instant t satisfies a <= t <= b.
C1_FilterReturnsRange ==
  (Returned("filter_by_time_index", "Event") /\ result.io[1] = 0)
    => Range(result.ret.val) = EventsWithin(result.args[1], result.args[2])

(* -------------------------------- C2 ---------------------------------- *)

\* C2 (the claim as written): on the events namespace keep_size(max_count)
\* keeps the newest records: every record it retains has a later instant
\* than every record it evicts.
C2_KeepsNewest ==
  Returned("keep_size", "Event")
    => \A kept \in KeysNow("Event") :
         \A gone \in KeysBefore("Event") \ KeysNow("Event") :
           EventAt(pre["events"], kept).ts > EventAt(pre["events"], gone).ts

(* -------------------------------- C3 ---------------------------------- *)

\* C3: after keep_size(n) returns Ok (one caller, nothing interleaved),
\* count_all() <= n, and every key still stored is lexicographically >=
\* every key the call evicted.
C3_RetentionInvariant ==
  \A T \in RecordTypes :
    Returned("keep_size", T)
      => /\ IsOk(count_all(T, 0))
         /\ count_all(T, 0).val <= result.args[1]
         /\ \A kept \in KeysNow(T) :
              \A gone \in KeysBefore(T) \ KeysNow(T) : StrLeq(gone, kept)

\* keep_size evicted some records and retained others.
C3_Witness ==
  \E T \in RecordTypes :
    /\ Returned("keep_size", T)
    /\ KeysNow(T) # {}
    /\ KeysBefore(T) \ KeysNow(T) # {}

(* -------------------------------- C4 ---------------------------------- *)

\* What get(k) is to return according to the sets and deletes so far.
Expected(T, k) ==
  IF k \in DOMAIN written[column_family(T)]
  THEN Ok(Some(written[column_family(T)][k]))
  ELSE Ok(None)

\* C4: after any sequence of set and del (and keep_size evictions, which
\* are deletes), get(k) returns the record of the most recent set with key
\* k when no delete of k followed it, and Ok(None) otherwise, also for a
\* key never set; this for the get just returned and for any get the
\* caller could make now.
C4_GetReturnsLastSet ==
  /\ \A T \in RecordTypes :
       IsOk(Handle(T)) => \A k \in Keys(T) : get(T, k, FALSE) = Expected(T, k)
  /\ (result.op = "get" /\ ~result.io[1] /\ ~IsPanic(result.ret)
        /\ result.ret # Err(ErrHandle))
       => result.ret = Expected(result.T, result.args[1])

\* A del of a stored key returned, and get of that key is now Ok(None).
C4_Witness ==
  \E T \in RecordTypes :
    /\ Returned("del", T)
    /\ result.args[1] \in KeysBefore(T)
    /\ get(T, result.args[1], FALSE) = Ok(None)

(* -------------------------------- C5 ---------------------------------- *)

\* C5: after a set that overwrites (its key was stored before), get_all()
\* holds exactly one record with that key, it is the record just set, and
\* the number of stored records is what it was.
C5_KeysUnique ==
  \A T \in RecordTypes :
    (Returned("set", T) /\ key(T, result.args[1]) \in KeysBefore(T))
      => LET all == get_all(T, 0)
             k == key(T, result.args[1])
         IN /\ IsOk(all)
            /\ Cardinality({i \in 1..Len(all.val) : key(T, all.val[i]) = k})
                 = 1
            /\ \A i \in 1..Len(all.val) :
                 key(T, all.val[i]) = k => all.val[i] = result.args[1]
            /\ count_all(T, 0) = Ok(Cardinality(KeysBefore(T)))

\* A set replaced a different record stored under the same key.
C5_Witness ==
  \E T \in RecordTypes :
    /\ Returned("set", T)
    /\ key(T, result.args[1]) \in KeysBefore(T)
    /\ deserialize_from_bytes(T, pre[column_family(T)]
                                     [key(T, result.args[1])]).val
         # result.args[1]

(* -------------------------------- C6 ---------------------------------- *)

\* C6: in every state reached by set, del and keep_size, with no call in
\* progress, count_all() equals the length of get_all().
C6_CountConsistency ==
  \A T \in RecordTypes :
    IsOk(Handle(T))
      => /\ IsOk(get_all(T, 0))
         /\ IsOk(count_all(T, 0))
         /\ count_all(T, 0).val = Len(get_all(T, 0).val)

\* A del removed one of several stored records.
C6_Witness ==
  \E T \in RecordTypes :
    /\ Returned("del", T)
    /\ result.args[1] \in KeysBefore(T)
    /\ count_all(T, 0).val >= 2

(* -------------------------------- C7 ---------------------------------- *)

\* C7: the context is installed once and never replaced.  An initialize
\* whose database opens, called while no context is installed, returns Ok
\* and installs the context it opened; every initialize called once a
\* context is installed returns an error and leaves the installed context
\* and the stored data as they were; no step ever changes an installed
\* context.
C7_InitializeOnce ==
  [][/\ instance # <<>> => instance' = instance
     /\ (result.op = "none" /\ result'.op = "initialize")
          => IF instance = <<>>
             THEN result'.io[1]
                    => /\ IsOk(result'.ret)
                       /\ instance' = <<[path |-> result'.args[1],
                                         cfs |-> result'.args[2]]>>
             ELSE /\ IsErr(result'.ret)
                  /\ store' = store]_vars

\* A second initialize, for another path and another list of column
\* families, was turned down while the first database holds records.
C7_Witness ==
  /\ result.op = "initialize"
  /\ result.ret = Err(ErrInitialized)
  /\ instance # <<>>
  /\ result.args[1] # get_instance.path
  /\ result.args[2] # get_instance.cfs
  /\ \E cf \in get_instance.cfs : DOMAIN store[cf] # {}

(* -------------------------------- C10 --------------------------------- *)

\* T's column family holds a value that does not decode as T.
HasCorruptEntry(T) ==
  \E k \in KeysNow(T) :
    IsErr(deserialize_from_bytes(T, store[column_family(T)][k]))

\* C10 (the claim as written): count_all() fails when some stored value
\* does not decode as T.
C10_CountSurfacesDecodeErrors ==
  (result.op = "count_all" /\ IsOk(Handle(result.T))
     /\ HasCorruptEntry(result.T))
    => ~IsOk(result.ret)

\* C10 (amended): count_all() never decodes a value.  When the namespace
\* resolves it returns the number of stored entries, an entry that does not
\* decode as T counted like any other, unless the iteration itself reports
\* an error, and then it fails with that error.
C10_CountIgnoresValues ==
  (result.op = "count_all" /\ IsOk(Handle(result.T)))
    => result.ret = IF result.io[1] = 0
                    THEN Ok(Cardinality(KeysNow(result.T)))
                    ELSE Err(ErrRead)

\* count_all returned a count that includes an entry that does not decode.
C10_Witness ==
  /\ result.op = "count_all"
  /\ IsOk(Handle(result.T))
  /\ HasCorruptEntry(result.T)
  /\ IsOk(result.ret)
  /\ result.ret.val >= 2

(* -------------------------------- C8 ---------------------------------- *)

\* Both callers have returned Ok from keep_size(n) on T's column family,
\* and each counted more than n entries.
BothKept(T, n) ==
  \A p \in Procs :
    /\ pc[p] = "done"
    /\ ks[p].T = T
    /\ ks[p].size = n
    /\ IsOk(ks[p].ret)
    /\ ks[p].current_count > n

\* C8: two keep_size(n) calls on a namespace holding more than n records,
\* with no other writer, leave fewer than n records only when one call's
\* batch-delete landed between the other's count and its re-scan, and then
\* they do whenever n > 0; unless they race in this way exactly n records
\* remain.
C8_OverDeleteByRace ==
  \A T \in TimeIndexed, n \in 0..MaxSize :
    BothKept(T, n)
      => IF \E p \in Procs : ks[p].raced
         THEN Cardinality(KeysOfCf(T)) < n \/ n = 0
         ELSE Cardinality(KeysOfCf(T)) = n

\* Two racing keep_size(n) calls have left fewer than n records.
C8_Witness ==
  \E T \in TimeIndexed, n \in 0..MaxSize :
    BothKept(T, n) /\ Cardinality(KeysOfCf(T)) < n

(* -------------------------------- C9 ---------------------------------- *)

\* C9: keep_size is not isolated from a concurrent set.  The keys a call
\* deletes are those of its re-scan, not those stored at its count: they
\* differ from what the count's contents would have given only when a set
\* landed between the count and the re-scan, and a call removes a record
\* set after its count only when such a set landed there or wrote a key the
\* call had already collected.
C9_SetChangesEviction ==
  \A p \in Procs :
    /\ ks[p].selection_changed => ks[p].interfered
    /\ ks[p].evicted_set => ks[p].interfered \/ ks[p].set_selected

\* A keep_size call has removed a record that a set wrote after the call's
\* count, and has deleted other keys than it would have without that set.
C9_Witness ==
  \E p \in Procs :
    /\ pc[p] = "done"
    /\ IsOk(ks[p].ret)
    /\ ks[p].evicted_set
    /\ ks[p].selection_changed

(* -------------------------------- C11 --------------------------------- *)

\* The entries of T's column family when the last call began.
EntriesBefore(T) == Entries(pre[column_family(T)])

\* C11: get_all never returns a partial result.  When it returns a list, the
\* list holds the decoded record of every entry of the column family, in
\* iteration order; when a stored value does not decode as T or the
\* iteration yields an error, it returns no list.
C11_GetAllIsAllOrNothing ==
  \A T \in RecordTypes :
    (result.op = "get_all" /\ result.T = T /\ IsOk(Handle(T)))
      => LET es == EntriesBefore(T)
             corrupt == \E i \in 1..Len(es) :
                          IsErr(deserialize_from_bytes(T, es[i][2]))
         IN /\ IsOk(result.ret) \/ IsErr(result.ret)
            /\ IsOk(result.ret)
                 => /\ Len(result.ret.val) = Len(es)
                    /\ \A i \in 1..Len(es) :
                         Ok(result.ret.val[i])
                           = deserialize_from_bytes(T, es[i][2])
            /\ (corrupt \/ result.io[1] # 0) => IsErr(result.ret)

\* get_all failed on a value that does not decode while the column family
\* also held a value that decodes, before the corrupt one in key order.
C11_Witness ==
  /\ result.op = "get_all"
  /\ result.ret = Err(ErrDecode)
  /\ result.io[1] = 0
  /\ LET es == EntriesBefore(result.T)
     IN /\ Len(es) >= 2
        /\ IsOk(deserialize_from_bytes(result.T, es[1][2]))

(* -------------------------------- C12 --------------------------------- *)

\* The operations of ColumnFamily<T>.
AccessorOps ==
  {"get_all", "get", "set", "del", "count_all", "keep_size",
   "filter_by_time_index"}

\* C12: whenever the column family of T was not opened, or no context was
\* ever installed, an accessor operation returns an error value (the handle
\* error) and leaves the database unchanged.
C12_MissingHandleIsError ==
  (result.op \in AccessorOps /\ ~IsOk(Handle(result.T)))
    => /\ result.ret = Err(ErrHandle)
       /\ store = pre

\* C12 as the code has it: a call made while no context is installed
\* panics in get_instance ("DbContext not initialized") instead of returning
\* an error; with a context installed whose column families do not include
\* T's, the call returns the handle error.  Either way the database is left
\* unchanged.
C12_MissingHandleStopsCall ==
  (result.op \in AccessorOps /\ ~IsOk(Handle(result.T)))
    => /\ result.ret = IF instance = <<>> THEN Panic(NotInitialized)
                       ELSE Err(ErrHandle)
       /\ store = pre

\* A set through the accessor of a type whose column family was not opened,
\* on a database that holds records of another type.
C12_Witness ==
  /\ result.op = "set"
  /\ instance # <<>>
  /\ column_family(result.T) \notin get_instance.cfs
  /\ result.ret = Err(ErrHandle)
  /\ \E cf \in DOMAIN store : store[cf] # EmptyMap

(* -------------------------------- C13 --------------------------------- *)

\* a < b for natural numbers given as canonical decimal digits.
NumLess(a, b) ==
  Len(a) < Len(b) \/ (Len(a) = Len(b) /\ StrLess(a, b))

\* C13: for instants t1 < t2 within 0..i64::MAX and any discriminators, the
\* index key of (id2, t2) is lexicographically smaller than the index key of
\* (id1, t1).
C13_LaterInstantSmallerKey ==
  (result.op = "generate_timestamp_index"
     /\ NumLess(result.args[2], result.args[4]))
    => StrLess(result.ret.val[2], result.ret.val[1])

\* Two keys were computed for instants whose inverted values differ in
\* digit count, the later instant having the larger discriminator.
C13_Witness ==
  /\ result.op = "generate_timestamp_index"
  /\ NumLess(result.args[2], result.args[4])
  /\ Len(InvertedDigits(result.args[4])) < Len(InvertedDigits(result.args[2]))
  /\ StrLess(result.args[1], result.args[3])

(* -------------------------------- C14 --------------------------------- *)

\* C14: del is idempotent and does not fail on a key that is not stored.
\* Unless the engine fails the delete, del(k) returns Ok; on a key that was
\* not stored it leaves the column family as it was; after it, k is not
\* stored, get(k) is absent, and a second del(k) returns Ok and leaves the
\* database exactly as the first one left it.
C14_DelIdempotent ==
  \A T \in RecordTypes :
    (result.op = "del" /\ result.T = T /\ IsOk(Handle(T)) /\ ~result.io[1])
      => LET k == result.args[1]
         IN /\ result.ret = Ok(Unit)
            /\ k \notin KeysBefore(T) => store = pre
            /\ k \notin KeysNow(T)
            /\ get(T, k, FALSE) = Ok(None)
            /\ del(T, k, FALSE) = [ret |-> Ok(Unit), db |-> store]

\* A del of a key that was not stored, on a column family that holds other
\* records.
C14_Witness ==
  /\ result.op = "del"
  /\ result.ret = Ok(Unit)
  /\ result.args[1] \notin KeysBefore(result.T)
  /\ KeysNow(result.T) # {}

(* -------------------------------- C15 --------------------------------- *)

\* C15: set is idempotent.  After a successful set(r), get(r.key()) returns
\* r, and a second set(r) succeeds and leaves the database (hence get_all
\* and count_all) exactly as the first one left it.
C15_SetIdempotent ==
  \A T \in RecordTypes :
    Returned("set", T)
      => LET r == result.args[1]
         IN /\ get(T, key(T, r), FALSE) = Ok(Some(r))
            /\ set(T, r, FALSE) = [ret |-> Ok(Unit), db |-> store]

\* The second of two set(r) in a row, on a column family that holds another
\* record as well: the database is as the first set left it.
C15_Witness ==
  /\ result.op = "set"
  /\ IsOk(result.ret)
  /\ key(result.T, result.args[1]) \in KeysBefore(result.T)
  /\ written[column_family(result.T)][key(result.T, result.args[1])]
       = result.args[1]
  /\ store = pre
  /\ Cardinality(KeysNow(result.T)) >= 2

(* -------------------------------- C16 --------------------------------- *)

\* C16: the records get_all returns are in ascending byte-wise order of
\* their keys.
C16_GetAllAscending ==
  \A T \in RecordTypes :
    Returned("get_all", T)
      => \A i \in 1..Len(result.ret.val), j \in 1..Len(result.ret.val) :
           i < j => StrLess(key(T, result.ret.val[i]),
                            key(T, result.ret.val[j]))

\* get_all returned every event, the latest first.
C16_Witness ==
  /\ Returned("get_all", "Event")
  /\ Len(result.ret.val) = NumInstants
  /\ \A i \in 1..(NumInstants - 1) :
       result.ret.val[i].ts > result.ret.val[i + 1].ts

(* -------------------------------- C17 --------------------------------- *)

\* C17: the bound keys filter_by_time_index compares the stored keys with
\* are the index encodings of its arguments: for each of the two instants,
\* the bound string is the 20-digit zero-padded inverted timestamp that
\* generate_timestamp_index renders.
C17_BoundKeysAreIndexKeys ==
  result.op = "filter_by_time_index"
    => \A i \in 1..2 :
         BoundKey(result.args[i])
           = Format020(InvertedTimestamp(result.args[i]))

(* -------------------------------- C18 --------------------------------- *)

\* C18: a keep_size(n) that returns Ok on a column family of c records, no
\* other call running, removes exactly max(0, c - n) records: the c - n
\* smallest keys; every other entry keeps its value, and with c <= n
\* nothing changes.
C18_KeepSizeRemovesExactly ==
  \A T \in RecordTypes :
    Returned("keep_size", T)
      => LET c == Cardinality(KeysBefore(T))
             n == result.args[1]
             gone == KeysBefore(T) \ KeysNow(T)
         IN /\ KeysNow(T) \subseteq KeysBefore(T)
            /\ Cardinality(gone) = IF c > n THEN c - n ELSE 0
            /\ \A g \in gone : \A kept \in KeysNow(T) : StrLess(g, kept)
            /\ \A k \in KeysNow(T) :
                 store[column_family(T)][k] = pre[column_family(T)][k]
            /\ c <= n => store = pre

\* keep_size removed more than one record and kept at least one.
C18_Witness ==
  /\ result.op = "keep_size"
  /\ IsOk(result.ret)
  /\ Cardinality(KeysBefore(result.T) \ KeysNow(result.T)) >= 2
  /\ KeysNow(result.T) # {}

(* -------------------------------- C20 --------------------------------- *)

\* C20: a keep_size that returns an error from resolving the column family,
\* from the count or from the re-scan has deleted nothing: the database is
\* what it was before the call.
C20_FailedKeepSizeDeletesNothing ==
  (result.op = "keep_size" /\ result.ret \in {Err(ErrHandle), Err(ErrRead)})
    => store = pre

\* keep_size failed in the re-scan after it had collected a key.
C20_Witness ==
  /\ result.op = "keep_size"
  /\ result.ret = Err(ErrRead)
  /\ result.io[1][1] = "collect"
  /\ result.io[1][2] >= 2
  /\ Cardinality(KeysBefore(result.T)) > result.args[1]

(* -------------------------------- C19 --------------------------------- *)

\* C19: set, del and keep_size through the accessor of T change no column
\* family but T's: every other one holds the keys and values it held before
\* the call.
C19_NamespacesIndependent ==
  result.op \in {"set", "del", "keep_size"}
    => /\ DOMAIN store = DOMAIN pre
       /\ \A cf \in DOMAIN store :
            cf # column_family(result.T) => store[cf] = pre[cf]

\* A Member was set under a key that the TestUser column family holds too,
\* with another value.
C19_Witness ==
  /\ Returned("set", "Member")
  /\ LET k == key("Member", result.args[1])
     IN /\ k \in DOMAIN store["test_users"]
        /\ store["test_users"][k] # store["members"][k]

====
